---- MODULE Spec2Model ----
(***************************************************************************)
(* Model of clinicadl/tools/data/generate_data.py (the two synthetic       *)
(* dataset generators) and clinicadl/tools/deep_learning/iotools.py (the   *)
(* JSON side-car writer and reader).                                       *)
(*                                                                         *)
(* Paths are sequences of path components relative to output_dir, so <<>>  *)
(* is output_dir itself.  Strings are built with \o as the code builds     *)
(* them with + and %.                                                      *)
(***************************************************************************)
EXTENDS Integers, Sequences, FiniteSets, TLC

VARIABLES
    pc,           \* position of the running generator
    gen,          \* "none" | "random" | "trivial"
    n_subjects,   \* argument n_subjects
    data_df_len,  \* len(data_df) after the read (and baseline_df for trivial)
    mask_path,    \* "None" or a directory name
    pre_dirs,     \* directories under output_dir that existed before the call
    dirs,         \* directories that exist now
    volumes,      \* volume files written by this invocation
    data_tsv,     \* [exists, rows]: the manifest written by this invocation
    i,            \* loop index
    output_df,    \* rows appended so far by generate_trivial_dataset
    err,          \* [type, line] of the exception that ended the run
    \* iotools.py
    cpc,          \* "build" | "written" | "write_failed" | "read" | "read_failed"
    args,         \* commandline[0]: the parsed-arguments namespace, key -> value
    args0,        \* the namespace as it was when commandline_to_json was called
    unknown_arg,  \* commandline[1]
    out_dir,      \* whether the output_dir of the namespace exists on disk
    json_file,    \* [exists, data]: commandline_<task_type>.json
    options,      \* the options object given to read_json
    options0,     \* the options object as it was when read_json was called
    test,         \* argument test of read_json
    cerr          \* [type, line] of the exception that ended the call

genVars == <<pc, gen, n_subjects, data_df_len, mask_path, pre_dirs, dirs,
             volumes, data_tsv, i, output_df, err>>

cfgVars == <<cpc, args, args0, unknown_arg, out_dir, json_file, options,
             options0, test, cerr>>

vars == <<genVars, cfgVars>>

----
\* Bounds of the model
MaxSubjects == 2
MaxRows == 2
MaxKeys == 4

----
\* Helpers

NoErr == [type |-> "none", line |-> 0]

Raise(t, l) == [type |-> t, line |-> l]

\* FILENAME_TYPE['cropped'], imported from clinicadl.tools.inputs.filename_types
FILENAME_TYPE_cropped == "<cropped>"

\* 'xxx%i' % k
FormatI(pre, k, post) == pre \o ToString(k) \o post

\* all prefixes of a path, the path included: what os.makedirs creates
Prefixes(p) == {SubSeq(p, 1, k) : k \in 0..Len(p)}

makedirs(p, d) == d \cup Prefixes(p)

Terminal == {"done", "failed"}

----
\* generate_random_dataset

\* RandomRows with the labels alternating instead of in two blocks
RandomRowsSwapped(n) ==
    [k \in 1..(IF n > 0 THEN 2 * n ELSE 0) |->
        [participant_id |-> FormatI("sub-RAND", k - 1, ""),
         session_id |-> "ses-M00",
         diagnosis |-> IF (k - 1) % 2 = 0 THEN "AD" ELSE "CN",
         age |-> 60,
         sex |-> "F"]]

\* lines 64-71: the output DataFrame
RandomRows(n) ==
    [k \in 1..(IF n > 0 THEN 2 * n ELSE 0) |->
        [participant_id |-> FormatI("sub-RAND", k - 1, ""),
         session_id |-> "ses-M00",
         diagnosis |-> IF k <= n THEN "AD" ELSE "CN",
         age |-> 60,
         sex |-> "F"]]

\* line 83
noisy_image_nii_path(k) ==
    <<"subjects", FormatI("sub-RAND", k, ""), "ses-M00", "t1_linear">>

\* line 84
noisy_image_nii_filename(k) ==
    FormatI("sub-RAND", k, "") \o "_ses-M00" \o FILENAME_TYPE_cropped \o ".nii.gz"

Fail(t, l) ==
    /\ pc' = "failed"
    /\ err' = Raise(t, l)

\* the call and line 49: data_df = pd.read_csv(tsv_path)
CallRandom(n, rows) ==
    /\ pc = "idle"
    /\ pc' = "r_mkdir"
    /\ gen' = "random"
    /\ n_subjects' = n
    /\ data_df_len' = rows
    /\ UNCHANGED <<mask_path, pre_dirs, dirs, volumes, data_tsv, i, output_df, err>>
    /\ UNCHANGED cfgVars

\* lines 52-53
R_MakeSubjectsDir ==
    /\ pc = "r_mkdir"
    /\ dirs' = IF <<"subjects">> \in dirs THEN dirs ELSE makedirs(<<"subjects">>, dirs)
    /\ pc' = "r_first"
    /\ UNCHANGED <<gen, n_subjects, data_df_len, mask_path, pre_dirs, volumes,
                   data_tsv, i, output_df, err>>
    /\ UNCHANGED cfgVars

\* lines 56-57: data_df.loc[0, ...] raises KeyError on an empty table
R_FirstRow ==
    /\ pc = "r_first"
    /\ IF data_df_len = 0
          THEN Fail("KeyError", 56)
          ELSE pc' = "r_load" /\ UNCHANGED err
    /\ UNCHANGED <<gen, n_subjects, data_df_len, mask_path, pre_dirs, dirs,
                   volumes, data_tsv, i, output_df>>
    /\ UNCHANGED cfgVars

\* lines 59-61: the source volume is found and loaded, or it is not
R_LoadImage ==
    /\ pc = "r_load"
    /\ \/ pc' = "r_tsv" /\ UNCHANGED err
       \/ Fail("FileNotFoundError", 60)
    /\ UNCHANGED <<gen, n_subjects, data_df_len, mask_path, pre_dirs, dirs,
                   volumes, data_tsv, i, output_df>>
    /\ UNCHANGED cfgVars

\* lines 64-72: the manifest is written before the loop over the subjects
R_WriteTsv ==
    /\ pc = "r_tsv"
    /\ IF <<>> \in dirs
          THEN /\ data_tsv' = [exists |-> TRUE, rows |-> RandomRows(n_subjects)]
               /\ i' = 0
               /\ pc' = "r_for"
               /\ UNCHANGED err
          ELSE /\ Fail("FileNotFoundError", 72)
               /\ UNCHANGED <<data_tsv, i>>
    /\ UNCHANGED <<gen, n_subjects, data_df_len, mask_path, pre_dirs, dirs,
                   volumes, output_df>>
    /\ UNCHANGED cfgVars

\* line 74: for i in range(2 * n_subjects)
R_For ==
    /\ pc = "r_for"
    /\ pc' = IF i < 2 * n_subjects THEN "r_noise" ELSE "done"
    /\ UNCHANGED <<gen, n_subjects, data_df_len, mask_path, pre_dirs, dirs,
                   volumes, data_tsv, i, output_df, err>>
    /\ UNCHANGED cfgVars

\* lines 75-82: noise, and the interpolation when output_size is given; the
\* interpolation raises on an output_size it cannot use
R_Noise ==
    /\ pc = "r_noise"
    /\ \/ pc' = "r_mkpath" /\ UNCHANGED err
       \/ Fail("RuntimeError", 80)
    /\ UNCHANGED <<gen, n_subjects, data_df_len, mask_path, pre_dirs, dirs,
                   volumes, data_tsv, i, output_df>>
    /\ UNCHANGED cfgVars

\* lines 83-86 without the makedirs
R_MakeImageDirSkipped ==
    /\ pc = "r_mkpath"
    /\ pc' = "r_save"
    /\ UNCHANGED <<gen, n_subjects, data_df_len, mask_path, pre_dirs, dirs, volumes,
                   data_tsv, i, output_df, err>>
    /\ UNCHANGED cfgVars

\* lines 83-86
R_MakeImageDir ==
    /\ pc = "r_mkpath"
    /\ dirs' = IF noisy_image_nii_path(i) \in dirs
                  THEN dirs
                  ELSE makedirs(noisy_image_nii_path(i), dirs)
    /\ pc' = "r_save"
    /\ UNCHANGED <<gen, n_subjects, data_df_len, mask_path, pre_dirs, volumes,
                   data_tsv, i, output_df, err>>
    /\ UNCHANGED cfgVars

\* line 87: nib.save writes the volume, or fails
R_Save ==
    /\ pc = "r_save"
    /\ \/ /\ volumes' = volumes \cup
                 {Append(noisy_image_nii_path(i), noisy_image_nii_filename(i))}
          /\ i' = i + 1
          /\ pc' = "r_for"
          /\ UNCHANGED err
       \/ /\ Fail("OSError", 87)
          /\ UNCHANGED <<volumes, i>>
    /\ UNCHANGED <<gen, n_subjects, data_df_len, mask_path, pre_dirs, dirs,
                   data_tsv, output_df>>
    /\ UNCHANGED cfgVars

----
\* generate_trivial_dataset

\* line 134
diagnosis_list == <<"AD", "CN">>

\* Python's % : string formatting when the left operand is a str; a list has
\* no % operator and the expression raises TypeError
PyMod(lhs, k) ==
    IF lhs.type = "str"
       THEN [type |-> "str", val |-> FormatI(lhs.pre, k, lhs.post)]
       ELSE [type |-> "TypeError", val |-> ""]

\* line 142: ['sub-TRIV%i' + FILENAME_TYPE['cropped'] + '.nii.gz'] % i
\* the left operand of % is a list holding the format string
filename(k) ==
    PyMod([type |-> "list", pre |-> "sub-TRIV",
           post |-> FILENAME_TYPE_cropped \o ".nii.gz"], k)

\* line 143
path_image(k) ==
    <<"subjects", FormatI("sub-TRIV", k, ""), "ses-M00", "t1_linear">>

\* line 164
row(k) ==
    [participant_id |-> FormatI("sub-TRIV", k, ""),
     session_id |-> "ses-M00",
     diagnosis |-> diagnosis_list[(k % 2) + 1],
     age |-> 60,
     sex |-> "F"]

\* the call and lines 120-121: data_df is the baseline table, one row per
\* participant; len is its number of rows
CallTrivial(n, len, mask) ==
    /\ pc = "idle"
    /\ pc' = "t_check_n"
    /\ gen' = "trivial"
    /\ n_subjects' = n
    /\ data_df_len' = len
    /\ mask_path' = mask
    /\ UNCHANGED <<pre_dirs, dirs, volumes, data_tsv, i, output_df, err>>
    /\ UNCHANGED cfgVars

\* the guard of line 123 off by one
TooManySubjectsOffByOne(n, len) == n > len + 1

\* line 123
TooManySubjects(n, len) == n > len

\* lines 123-125
T_CheckSubjects ==
    /\ pc = "t_check_n"
    /\ IF TooManySubjects(n_subjects, data_df_len)
          THEN Fail("ValueError", 124)
          ELSE pc' = "t_check_mask" /\ UNCHANGED err
    /\ UNCHANGED <<gen, n_subjects, data_df_len, mask_path, pre_dirs, dirs,
                   volumes, data_tsv, i, output_df>>
    /\ UNCHANGED cfgVars

\* lines 127-134
T_CheckMask ==
    /\ pc = "t_check_mask"
    /\ IF mask_path = "None"
          THEN Fail("ValueError", 128) /\ UNCHANGED <<i, output_df>>
          ELSE /\ output_df' = <<>>
               /\ i' = 0
               /\ pc' = "t_for"
               /\ UNCHANGED err
    /\ UNCHANGED <<gen, n_subjects, data_df_len, mask_path, pre_dirs, dirs,
                   volumes, data_tsv>>
    /\ UNCHANGED cfgVars

\* line 136: for i in range(2 * n_subjects)
T_For ==
    /\ pc = "t_for"
    /\ pc' = IF i < 2 * n_subjects THEN "t_body" ELSE "t_tsv"
    /\ UNCHANGED <<gen, n_subjects, data_df_len, mask_path, pre_dirs, dirs,
                   volumes, data_tsv, i, output_df, err>>
    /\ UNCHANGED cfgVars

\* lines 137-166: one pass of the loop body, up to the first exception
T_Body ==
    /\ pc = "t_body"
    /\ IF i \div 2 >= data_df_len
          THEN \* line 140: data_df.loc[data_idx, ...] on a missing index
               /\ Fail("KeyError", 140)
               /\ UNCHANGED <<dirs, volumes, i, output_df>>
          ELSE IF filename(i).type = "TypeError"
          THEN \* line 142
               /\ Fail("TypeError", 142)
               /\ UNCHANGED <<dirs, volumes, i, output_df>>
          ELSE \* lines 143-166
               /\ dirs' = IF path_image(i) \in dirs
                             THEN dirs
                             ELSE makedirs(path_image(i), dirs)
               /\ \/ \* lines 148-152: a source volume or a mask does not load
                     /\ Fail("FileNotFoundError", 149)
                     /\ UNCHANGED <<volumes, i, output_df>>
                  \/ \* lines 155-166
                     /\ volumes' = volumes \cup
                            {Append(path_image(i), filename(i).val)}
                     /\ output_df' = Append(output_df, row(i))
                     /\ i' = i + 1
                     /\ pc' = "t_for"
                     /\ UNCHANGED err
    /\ UNCHANGED <<gen, n_subjects, data_df_len, mask_path, pre_dirs, data_tsv>>
    /\ UNCHANGED cfgVars

\* line 168: to_csv into output_dir, which nothing above has created when the
\* loop did not run
T_WriteTsv ==
    /\ pc = "t_tsv"
    /\ IF <<>> \in dirs
          THEN /\ data_tsv' = [exists |-> TRUE, rows |-> output_df]
               /\ pc' = "done"
               /\ UNCHANGED err
          ELSE /\ Fail("FileNotFoundError", 168)
               /\ UNCHANGED data_tsv
    /\ UNCHANGED <<gen, n_subjects, data_df_len, mask_path, pre_dirs, dirs,
                   volumes, i, output_df>>
    /\ UNCHANGED cfgVars

----
\* iotools.py: Python and JSON values

\* A Python value is [type, val]: its type name and its printed form.
PyNone == [type |-> "NoneType", val |-> "None"]
PyBool(b) == [type |-> "bool", val |-> IF b THEN "True" ELSE "False"]
PyInt(s) == [type |-> "int", val |-> s]
PyFloat(s) == [type |-> "float", val |-> s]
PyStr(s) == [type |-> "str", val |-> s]
PyList(s) == [type |-> "list", val |-> s]
PyTuple(s) == [type |-> "tuple", val |-> s]
PyFunction(s) == [type |-> "function", val |-> s]

\* bool(v)
Truthy(v) ==
    CASE v.type = "NoneType" -> FALSE
      [] v.type = "bool" -> v.val = "True"
      [] v.type \in {"int", "float"} -> v.val \notin {"0", "0.0"}
      [] v.type \in {"str", "list", "tuple"} -> v.val # ""
      [] OTHER -> TRUE

\* not v
PyNot(v) == PyBool(~Truthy(v))

\* Attribute dictionaries are functions from attribute names to values.
EmptyDict == [k \in {} |-> PyNone]
hasattr(o, k) == k \in DOMAIN o
setattr(o, k, v) == [x \in DOMAIN o \cup {k} |-> IF x = k THEN v ELSE o[x]]
delattr(o, k) == [x \in DOMAIN o \ {k} |-> o[x]]

\* json.dumps of one value: a JSON value is [jtype, val].  None becomes null,
\* a list and a tuple both become an array, a function has no encoding.
JsonSerializable(v) ==
    v.type \in {"NoneType", "bool", "int", "float", "str", "list", "tuple"}

JsonDumps(v) ==
    CASE v.type = "NoneType" -> [jtype |-> "null", val |-> "null"]
      [] v.type = "bool" -> [jtype |-> IF v.val = "True" THEN "true" ELSE "false",
                             val |-> v.val]
      [] v.type = "int" -> [jtype |-> "int", val |-> v.val]
      [] v.type = "float" -> [jtype |-> "real", val |-> v.val]
      [] v.type = "str" -> [jtype |-> "string", val |-> v.val]
      [] v.type \in {"list", "tuple"} -> [jtype |-> "array", val |-> v.val]

\* json.load of one value
JsonLoad(j) ==
    CASE j.jtype = "null" -> PyNone
      [] j.jtype = "true" -> PyBool(TRUE)
      [] j.jtype = "false" -> PyBool(FALSE)
      [] j.jtype = "int" -> PyInt(j.val)
      [] j.jtype = "real" -> PyFloat(j.val)
      [] j.jtype = "string" -> PyStr(j.val)
      [] j.jtype = "array" -> PyList(j.val)

----
\* commandline_to_json

CFail(t, l) ==
    /\ cerr' = Raise(t, l)

\* the removed entries without the del of lines 171-172
RemovedEntriesTsvKept == {"func", "caps_dir", "output_dir"}

\* lines 164-175: the entries removed from the dictionary before it is dumped
RemovedEntries == {"func", "caps_dir", "tsv_path", "output_dir"}

\* lines 165-175
RemoveEntries(dic) == [k \in DOMAIN dic \ RemovedEntries |-> dic[k]]

\* commandline_to_json working on a copy, dict(vars(commandline[0])): the
\* namespace itself is left as it was
CommandlineToJsonOnCopy ==
    /\ cpc = "build"
    /\ args0' = args
    /\ args' = args
    /\ LET d1 == setattr(args, "unknown_arg", unknown_arg)
           d2 == RemoveEntries(d1)
       IN  IF ~hasattr(d1, "output_dir")
              THEN /\ cpc' = "write_failed"
                   /\ CFail("KeyError", 160)
                   /\ UNCHANGED <<out_dir, json_file>>
              ELSE IF \E k \in DOMAIN d2 : ~JsonSerializable(d2[k])
              THEN /\ out_dir' = TRUE
                   /\ cpc' = "write_failed"
                   /\ CFail("TypeError", 178)
                   /\ UNCHANGED json_file
              ELSE /\ out_dir' = TRUE
                   /\ json_file' = [exists |-> TRUE,
                                    data |-> [k \in DOMAIN d2 |-> JsonDumps(d2[k])]]
                   /\ cpc' = "written"
                   /\ UNCHANGED cerr
    /\ UNCHANGED <<unknown_arg, options, options0, test>>
    /\ UNCHANGED genVars

\* lines 157-182.  commandline_arg_dic is vars(commandline[0]): the namespace's
\* own dictionary, so every change to it is a change of the namespace.
CommandlineToJson ==
    /\ cpc = "build"
    /\ args0' = args
    /\ LET d1 == setattr(args, "unknown_arg", unknown_arg)     \* line 158
           d2 == RemoveEntries(d1)                              \* lines 165-175
       IN  IF ~hasattr(d1, "output_dir")
              THEN \* line 160
                   /\ args' = d1
                   /\ cpc' = "write_failed"
                   /\ CFail("KeyError", 160)
                   /\ UNCHANGED <<out_dir, json_file>>
              ELSE IF \E k \in DOMAIN d2 : ~JsonSerializable(d2[k])
              THEN \* line 178
                   /\ args' = d2
                   /\ out_dir' = TRUE
                   /\ cpc' = "write_failed"
                   /\ CFail("TypeError", 178)
                   /\ UNCHANGED json_file
              ELSE \* lines 178-182
                   /\ args' = d2
                   /\ out_dir' = TRUE
                   /\ json_file' = [exists |-> TRUE,
                                    data |-> [k \in DOMAIN d2 |-> JsonDumps(d2[k])]]
                   /\ cpc' = "written"
                   /\ UNCHANGED cerr
    /\ UNCHANGED <<unknown_arg, options, options0, test>>
    /\ UNCHANGED genVars

----
\* read_json

\* line 202: json.load of the file's dictionary
json_load(data) == [k \in DOMAIN data |-> JsonLoad(data[k])]

\* line 196
evaluation_parameters == {"diagnosis_path", "input_dir", "diagnoses"}

\* a rename table whose first target is itself a legacy name
prep_compatibility_chained ==
    [k \in {"mni", "linear"} |-> IF k = "mni" THEN "linear" ELSE "t1-linear"]

\* line 197
prep_compatibility_dict ==
    [k \in {"mni", "linear"} |-> IF k = "mni" THEN "t1-volume" ELSE "t1-linear"]

\* lines 204-212: the first if only passes and control falls to the second
\* if, whose else branch sets the attribute
SetattrLoop(o, json_data, t) ==
    [k \in DOMAIN o \cup {x \in DOMAIN json_data :
                              ~(t /\ x \in evaluation_parameters)} |->
        IF /\ k \in DOMAIN json_data
           /\ ~(t /\ k \in evaluation_parameters)
           THEN json_data[k]
           ELSE o[k]]

\* The retro-compatibility pass works on [o, err]: the options and the line
\* of the exception raised, 0 while none is.  A step is skipped once an
\* exception has been raised.
Ok(o) == [o |-> o, err |-> 0]
AttributeError(o, l) == [o |-> o, err |-> l]

\* clinicadl.cli.set_default_dropout: fills a dropout of None with the
\* default of the mode
set_default_dropout(o) ==
    IF o["dropout"] # PyNone THEN Ok(o)
    ELSE IF ~hasattr(o, "mode") THEN AttributeError(o, 217)
    ELSE Ok(setattr(o, "dropout",
                    CASE o["mode"] = PyStr("image") -> PyFloat("0.5")
                      [] o["mode"] = PyStr("slice") -> PyFloat("0.8")
                      [] OTHER -> PyInt("0")))

\* lines 215-217
Retro_dropout(st) ==
    IF st.err # 0 THEN st ELSE
    LET o == st.o IN
    set_default_dropout(IF ~hasattr(o, "dropout") THEN setattr(o, "dropout", PyNone) ELSE o)

\* lines 219-220
Retro_preprocessing(st) ==
    IF st.err # 0 THEN st ELSE
    LET o == st.o IN
    IF ~hasattr(o, "preprocessing") THEN AttributeError(o, 219)
    ELSE IF o["preprocessing"].type = "str"
            /\ o["preprocessing"].val \in DOMAIN prep_compatibility_dict
         THEN Ok(setattr(o, "preprocessing",
                         PyStr(prep_compatibility_dict[o["preprocessing"].val])))
         ELSE Ok(o)

\* an attribute renamed: new = old, del old
Rename(o, old, new) ==
    IF hasattr(o, old) THEN delattr(setattr(o, new, o[old]), old) ELSE o

\* lines 222-224
Retro_mri_plane(st) ==
    IF st.err # 0 THEN st ELSE
    LET o == st.o IN
    Ok(Rename(o, "mri_plane", "slice_direction"))

\* lines 226-228
Retro_hippocampus_roi(st) ==
    IF st.err # 0 THEN st ELSE
    LET o == st.o IN
    Ok(IF hasattr(o, "hippocampus_roi")
          THEN delattr(setattr(o, "mode", PyStr("roi")), "hippocampus_roi")
          ELSE o)

\* lines 230-236
Retro_pretrained(st) ==
    IF st.err # 0 THEN st ELSE
    LET o == st.o IN
    Ok(Rename(Rename(o, "pretrained_path", "transfer_learning_path"),
              "pretrained_difference", "transfer_learning_difference"))

\* lines 238-245
Retro_mode(st) ==
    IF st.err # 0 THEN st ELSE
    LET o == st.o IN
    IF ~hasattr(o, "mode") THEN AttributeError(o, 238)
    ELSE LET o1 == IF o["mode"] = PyStr("subject")
                      THEN setattr(o, "mode", PyStr("image")) ELSE o
             o2 == IF o1["mode"] = PyStr("slice") /\ ~hasattr(o1, "mode_task")
                      THEN setattr(o1, "mode_task", PyStr("cnn")) ELSE o1
             o3 == IF o2["mode"] = PyStr("patch") /\ hasattr(o2, "network_type")
                      THEN delattr(IF o2["network_type"] = PyStr("multi")
                                      THEN setattr(o2, "mode_task", PyStr("multicnn"))
                                      ELSE o2,
                                   "network_type")
                      ELSE o2
         IN  Ok(o3)

\* lines 247-251
Retro_mode_task(st) ==
    IF st.err # 0 THEN st ELSE
    LET o == st.o IN
    Ok(IF hasattr(o, "mode_task") THEN o
       ELSE setattr(o, "mode_task",
                    IF hasattr(o, "train_autoencoder")
                       THEN PyStr("autoencoder") ELSE PyStr("cnn")))

\* lines 253-257
Retro_polarity(st) ==
    IF st.err # 0 THEN st ELSE
    LET o == st.o IN
    LET o1 == IF hasattr(o, "use_cpu")
                 THEN setattr(o, "use_gpu", PyNot(o["use_cpu"])) ELSE o
        o2 == IF hasattr(o1, "unnormalize")
                 THEN setattr(o1, "minmaxnormalization", PyNot(o1["unnormalize"]))
                 ELSE o1
    IN  Ok(o2)

\* lines 259-264
Retro_prepare_dl(st) ==
    IF st.err # 0 THEN st ELSE
    LET o == st.o IN
    LET o1 == IF hasattr(o, "use_extracted_slices")
                 THEN setattr(o, "prepare_dl", o["use_extracted_slices"]) ELSE o
        o2 == IF hasattr(o1, "use_extracted_patches")
                 THEN setattr(o1, "prepare_dl", o1["use_extracted_patches"]) ELSE o1
        o3 == IF hasattr(o2, "use_extracted_roi")
                 THEN setattr(o2, "prepare_dl", o2["use_extracted_roi"]) ELSE o2
    IN  Ok(o3)

\* lines 214-264, in the order of the code
RetroPass(o) ==
    Retro_prepare_dl(
    Retro_polarity(
    Retro_mode_task(
    Retro_mode(
    Retro_pretrained(
    Retro_hippocampus_roi(
    Retro_mri_plane(
    Retro_preprocessing(
    Retro_dropout(Ok(o))))))))))

\* lines 185-266
ReadJson(o, t) ==
    /\ cpc \in {"written", "write_failed"}
    /\ options0' = o
    /\ test' = t
    /\ IF ~json_file.exists
          THEN \* line 201
               /\ options' = o
               /\ cpc' = "read_failed"
               /\ CFail("FileNotFoundError", 201)
          ELSE LET json_data == json_load(json_file.data)               \* line 202
                   st == RetroPass(SetattrLoop(o, json_data, t))
               IN  /\ options' = st.o
                   /\ IF st.err # 0
                         THEN cpc' = "read_failed" /\ CFail("AttributeError", st.err)
                         ELSE cpc' = "read" /\ UNCHANGED cerr
    /\ UNCHANGED <<args, args0, unknown_arg, out_dir, json_file>>
    /\ UNCHANGED genVars

----
\* The generators' state machine

\* no side-car call is in progress
CfgOff ==
    /\ cpc = "off"
    /\ args = EmptyDict
    /\ args0 = EmptyDict
    /\ unknown_arg = PyList("")
    /\ out_dir = FALSE
    /\ json_file = [exists |-> FALSE, data |-> EmptyDict]
    /\ options = EmptyDict
    /\ options0 = EmptyDict
    /\ test = FALSE
    /\ cerr = NoErr

InitialDirs == {{}, {<<>>}, {<<>>, <<"subjects">>}}

Init ==
    /\ pc = "idle"
    /\ gen = "none"
    /\ n_subjects = 0
    /\ data_df_len = 0
    /\ mask_path = "None"
    /\ pre_dirs \in InitialDirs
    /\ dirs = pre_dirs
    /\ volumes = {}
    /\ data_tsv = [exists |-> FALSE, rows |-> <<>>]
    /\ i = 0
    /\ output_df = <<>>
    /\ err = NoErr
    /\ CfgOff

Next ==
    \/ \E n \in -1..MaxSubjects, rows \in 0..MaxRows : CallRandom(n, rows)
    \/ R_MakeSubjectsDir
    \/ R_FirstRow
    \/ R_LoadImage
    \/ R_WriteTsv
    \/ R_For
    \/ R_Noise
    \/ R_MakeImageDir
    \/ R_Save
    \/ \E n \in -1..(MaxSubjects + 1), len \in 0..MaxRows, mask \in {"None", "AAL2"} :
          CallTrivial(n, len, mask)
    \/ T_CheckSubjects
    \/ T_CheckMask
    \/ T_For
    \/ T_Body
    \/ T_WriteTsv

Spec == Init /\ [][Next]_vars

----
\* The side-car's state machine: a namespace is parsed, written with
\* commandline_to_json and read back with read_json

\* the attributes a parsed-arguments namespace may hold, with their values
ArgChoices ==
    {<<"caps_dir", PyStr("/caps")>>,
     <<"tsv_path", PyStr("/tsv")>>,
     <<"func", PyFunction("train_func")>>,
     <<"gpu", PyBool(TRUE)>>,
     <<"num_workers", PyInt("8")>>,
     <<"num_threads", PyInt("4")>>,
     <<"diagnoses", PyList("AD,MCI")>>,
     <<"diagnoses", PyTuple("AD,MCI")>>,
     <<"input_dir", PyStr("/train_caps")>>,
     <<"epochs", PyInt("20")>>,
     <<"epochs", PyFunction("schedule")>>,
     <<"dropout", PyNone>>,
     <<"dropout", PyFloat("0.5")>>,
     <<"preprocessing", PyStr("mni")>>,
     <<"preprocessing", PyStr("linear")>>,
     <<"mri_plane", PyInt("0")>>,
     <<"hippocampus_roi", PyBool(TRUE)>>,
     <<"pretrained_path", PyStr("/pretrained")>>,
     <<"pretrained_difference", PyInt("0")>>,
     <<"mode", PyStr("subject")>>,
     <<"mode", PyStr("slice")>>,
     <<"mode", PyStr("patch")>>,
     <<"mode_task", PyStr("autoencoder")>>,
     <<"network_type", PyStr("multi")>>,
     <<"network_type", PyStr("single")>>,
     <<"train_autoencoder", PyBool(TRUE)>>,
     <<"use_cpu", PyBool(TRUE)>>,
     <<"use_cpu", PyBool(FALSE)>>,
     <<"unnormalize", PyBool(TRUE)>>,
     <<"unnormalize", PyBool(FALSE)>>,
     <<"use_extracted_slices", PyBool(TRUE)>>,
     <<"use_extracted_patches", PyBool(FALSE)>>,
     <<"use_extracted_roi", PyBool(TRUE)>>}

\* the options objects read_json is called on
CallerOptions ==
    {[k \in {"gpu", "num_workers"} |->
         IF k = "gpu" THEN PyBool(FALSE) ELSE PyInt("1")],
     [k \in {"gpu", "num_workers", "diagnoses", "preprocessing", "mode"} |->
         CASE k = "gpu" -> PyBool(FALSE)
           [] k = "num_workers" -> PyInt("1")
           [] k = "diagnoses" -> PyList("AD,CN")
           [] k = "preprocessing" -> PyStr("linear")
           [] k = "mode" -> PyStr("patch")]}

\* argparse fills the namespace, one attribute at a time
AddArg(k, v) ==
    /\ cpc = "build"
    /\ ~hasattr(args, k)
    /\ Cardinality(DOMAIN args \ {"output_dir"}) < MaxKeys
    /\ args' = setattr(args, k, v)
    /\ UNCHANGED <<cpc, args0, unknown_arg, out_dir, json_file, options,
                   options0, test, cerr>>
    /\ UNCHANGED genVars

InitJson ==
    /\ pc = "off"
    /\ gen = "none"
    /\ n_subjects = 0
    /\ data_df_len = 0
    /\ mask_path = "None"
    /\ pre_dirs = {}
    /\ dirs = {}
    /\ volumes = {}
    /\ data_tsv = [exists |-> FALSE, rows |-> <<>>]
    /\ i = 0
    /\ output_df = <<>>
    /\ err = NoErr
    /\ cpc = "build"
    /\ args \in {EmptyDict, setattr(EmptyDict, "output_dir", PyStr("/out"))}
    /\ args0 = EmptyDict
    /\ unknown_arg = PyList("--extra")
    /\ out_dir = FALSE
    /\ json_file = [exists |-> FALSE, data |-> EmptyDict]
    /\ options = EmptyDict
    /\ options0 = EmptyDict
    /\ test = FALSE
    /\ cerr = NoErr

NextJson ==
    \/ \E c \in ArgChoices : AddArg(c[1], c[2])
    \/ CommandlineToJson
    \/ \E o \in CallerOptions, t \in BOOLEAN : ReadJson(o, t)

SpecJson == InitJson /\ [][NextJson]_vars

----
\* Properties of the generators

\* <output_dir>/subjects/<P>/ses-M00/t1_linear/<P>_ses-M00<suffix>.nii.gz
ExpectedVolume(P) ==
    <<"subjects", P, "ses-M00", "t1_linear",
      P \o "_ses-M00" \o FILENAME_TYPE_cropped \o ".nii.gz">>

SyntheticId(g, k) ==
    (IF g = "random" THEN "sub-RAND" ELSE "sub-TRIV") \o ToString(k)

IOFailures == {"FileNotFoundError", "OSError", "RuntimeError"}

\* C1: a completed run of generate_random_dataset with n > 0 leaves a manifest
\* of exactly 2n rows in index order: row k is sub-RAND<k>, ses-M00, age 60,
\* sex F, with diagnosis AD for k < n and CN for k >= n.
C1_RandomManifest ==
    (gen = "random" /\ pc = "done" /\ n_subjects > 0) =>
        /\ data_tsv.exists
        /\ Len(data_tsv.rows) = 2 * n_subjects
        /\ \A k \in 0..(Len(data_tsv.rows) - 1) :
              LET r == data_tsv.rows[k + 1] IN
              /\ r.participant_id = "sub-RAND" \o ToString(k)
              /\ r.session_id = "ses-M00"
              /\ r.age = 60
              /\ r.sex = "F"
              /\ r.diagnosis = IF k < n_subjects THEN "AD" ELSE "CN"

C1_Witness ==
    /\ gen = "random"
    /\ pc = "done"
    /\ n_subjects >= 2
    /\ data_df_len >= 1
    /\ Len(data_tsv.rows) = 2 * n_subjects

\* C2: generate_trivial_dataset with 0 < n <= number of baseline subjects, a
\* mask directory and loadable volumes runs to completion and writes a
\* manifest of 2n rows: row k is sub-TRIV<k>, age 60, sex F, diagnosis AD for
\* even k and CN for odd k.
C2_TrivialManifest ==
    (/\ gen = "trivial"
     /\ pc \in Terminal
     /\ 0 < n_subjects
     /\ n_subjects <= data_df_len
     /\ mask_path # "None"
     /\ err.type \notin IOFailures) =>
        /\ pc = "done"
        /\ data_tsv.exists
        /\ Len(data_tsv.rows) = 2 * n_subjects
        /\ \A k \in 0..(Len(data_tsv.rows) - 1) :
              LET r == data_tsv.rows[k + 1] IN
              /\ r.participant_id = "sub-TRIV" \o ToString(k)
              /\ r.age = 60
              /\ r.sex = "F"
              /\ r.diagnosis = IF k % 2 = 0 THEN "AD" ELSE "CN"

\* C3: generate_trivial_dataset called with more subjects than the baseline
\* table holds raises the ValueError of line 124 before any side effect: no
\* directory, volume or manifest is created and the loop never starts.
C3_TooManySubjectsRejected ==
    (gen = "trivial" /\ n_subjects > data_df_len) =>
        /\ dirs = pre_dirs
        /\ volumes = {}
        /\ ~data_tsv.exists
        /\ pc \in {"t_check_n", "failed"}
        /\ pc = "failed" => err = Raise("ValueError", 124)

C3_Witness ==
    /\ gen = "trivial"
    /\ n_subjects > data_df_len
    /\ data_df_len >= 1
    /\ mask_path # "None"
    /\ pc = "failed"
    /\ err.type = "ValueError"

\* C4: whenever data.tsv exists, a volume file has been written for every row
\* it lists; and a run that failed while generating a subject's volume has
\* left no data.tsv.
C4_NoManifestWithoutVolumes ==
    /\ data_tsv.exists =>
          \A k \in 1..Len(data_tsv.rows) :
              \E f \in volumes : f[2] = data_tsv.rows[k].participant_id
    /\ (pc = "failed" /\ err.line \in {80, 87, 142, 149}) => ~data_tsv.exists

\* C5: generate_random_dataset given n <= 0 or an empty manifest fails, and
\* does so before it creates a directory or writes a file.
C5_RandomRejectsInvalidInput ==
    (gen = "random" /\ (n_subjects <= 0 \/ data_df_len = 0)) =>
        /\ dirs = pre_dirs
        /\ volumes = {}
        /\ ~data_tsv.exists
        /\ pc # "done"

\* C8 as stated: within one invocation no directory is created once a file
\* (manifest or volume) has been written.
C8_TreeBeforeFiles ==
    [][(volumes # {} \/ data_tsv.exists) => dirs' = dirs]_vars

\* the directory a file is in
Parent(f) == SubSeq(f, 1, Len(f) - 1)

\* C8 amended: every file is written into a directory created before the
\* write: each volume's t1_linear folder exists when the volume is saved,
\* output_dir exists when data.tsv is written, and for generate_random_dataset
\* output_dir/subjects does too.
C8_DirectoryBeforeFile ==
    [][/\ \A f \in volumes' \ volumes : Parent(f) \in dirs
       /\ (~data_tsv.exists /\ data_tsv'.exists) =>
             /\ <<>> \in dirs
             /\ gen = "random" => <<"subjects">> \in dirs]_vars

C8_Witness ==
    /\ gen = "random"
    /\ pre_dirs = {}
    /\ data_tsv.exists
    /\ Cardinality(volumes) >= 2
    /\ \A f \in volumes : Parent(f) \in dirs

\* C9: every volume written is at subjects/<P>/ses-M00/t1_linear/
\* <P>_ses-M00<suffix>.nii.gz, and both generators write one there for every
\* output index of a run on valid input whose I/O does not fail.
C9_VolumePaths ==
    /\ \A f \in volumes :
          \E k \in 0..(2 * n_subjects - 1) : f = ExpectedVolume(SyntheticId(gen, k))
    /\ (/\ pc \in Terminal
        /\ n_subjects > 0
        /\ data_df_len > 0
        /\ gen = "trivial" => (n_subjects <= data_df_len /\ mask_path # "None")
        /\ err.type \notin IOFailures) =>
          \A k \in 0..(2 * n_subjects - 1) :
              ExpectedVolume(SyntheticId(gen, k)) \in volumes

----
\* Properties of the side-car

\* the side-car loaded onto a fresh options object by the loop of lines
\* 204-212 with test=False
Reloaded == SetattrLoop(EmptyDict, json_load(json_file.data), FALSE)

C7_RetroPassIdempotent ==
    cpc = "read" => RetroPass(options) = Ok(options)

C7_Witness ==
    /\ cpc = "read"
    /\ hasattr(json_file.data, "mri_plane")
    /\ hasattr(json_file.data, "use_cpu")
    /\ hasattr(json_file.data, "mode")
    /\ json_file.data["mode"].val = "subject"
    /\ options["mode"] = PyStr("image")
    /\ hasattr(options, "slice_direction")
    /\ options["use_gpu"] = PyNot(options["use_cpu"])

\* C10: after read_json, gpu, num_workers and num_threads are what the
\* caller's options held before the call, whatever the side-car holds for
\* them.
C10_ComputationalOptionsKept ==
    cpc = "read" =>
        \A k \in {"gpu", "num_workers", "num_threads"} :
            hasattr(json_file.data, k) =>
                /\ hasattr(options, k) <=> hasattr(options0, k)
                /\ hasattr(options0, k) => options[k] = options0[k]

\* C11: once commandline_to_json has returned, the caller's own namespace has
\* lost output_dir, caps_dir, tsv_path and func (those it had), holds
\* unknown_arg equal to commandline[1], and every other attribute is as it
\* was before the call.
C11_NamespaceMutated ==
    json_file.exists =>
        LET removed == {"output_dir", "caps_dir", "tsv_path", "func"} IN
        /\ DOMAIN args \cap removed = {}
        /\ hasattr(args, "unknown_arg")
        /\ args["unknown_arg"] = unknown_arg
        /\ DOMAIN args \ {"unknown_arg"} = DOMAIN args0 \ (removed \cup {"unknown_arg"})
        /\ \A k \in DOMAIN args \ {"unknown_arg"} : args[k] = args0[k]

C11_Witness ==
    /\ cpc = "written"
    /\ {"output_dir", "caps_dir", "tsv_path", "func", "gpu"} \subseteq DOMAIN args0
    /\ ~hasattr(args0, "unknown_arg")
    /\ hasattr(args, "gpu")

====
